---- MODULE Spec2Model ----
(***************************************************************************)
(* Model of livekit/agents/voice_assistant/cancellable_source.py:          *)
(* PlayoutHandle and CancellableAudioSource (play, aclose, _playout_task)  *)
(* running on an asyncio event loop.  One action is one event-loop step:   *)
(* the code executed between two suspension points of a task.              *)
(***************************************************************************)
EXTENDS Integers, Sequences, FiniteSets, TLC

(* ------------------------------ bounds --------------------------------- *)
MaxPlays == 3            \* accepted play() calls
MaxFairPlays == 2        \* accepted play() calls under FairSpec
MaxFrames == 2           \* frames a playout source can yield
MaxVolumeSets == 1       \* assignments to target_volume
MaxFaults == 1           \* source failures, sink failures, cancelled awaiters
NumClosers == 2          \* callers of aclose()

(* ------------------------- fixed-point volumes ------------------------- *)
\* Volumes (floats in the code) are counted in units of 1/VolScale.
VolScale == 1000000
\* eps = 1e-6 in _should_break, in volume units
Eps == 1
\* alpha of the ExpFilter, as the fraction AlphaNum / AlphaDen (0 < alpha < 1)
AlphaNum == 1
AlphaDen == 10000
\* volumes a caller assigns to target_volume: 0.5 and 1.0
Volumes == {VolScale \div 2, VolScale}

TaskIds == 1..MaxPlays
Closers == 1..NumClosers

(* ------------------------------ frames --------------------------------- *)
NoFrame == [sample_rate |-> 0, num_channels |-> 0, samples_per_channel |-> 0, data |-> <<>>]

\* rtc.AudioFrame values a playout source yields: 3 mono samples at 200 Hz,
\* which the task cuts into windows of 2 and 1 samples, and one sample per
\* channel of interleaved stereo at 200 Hz (a buffer of 2 samples).
SourceFrames ==
  { [sample_rate |-> 200, num_channels |-> 1, samples_per_channel |-> 3,
     data |-> <<1000, -1000, 500>>],
    [sample_rate |-> 200, num_channels |-> 2, samples_per_channel |-> 1,
     data |-> <<800, -800>>] }

\* rtc.AudioFrame(data, sample_rate, num_channels, samples_per_channel) is
\* code of the livekit rtc package: a buffer shorter than num_channels *
\* samples_per_channel samples is either rejected with a ValueError (strict)
\* or taken as it is.
AudioFrameRaises(chunk_frame, strict) ==
  /\ strict
  /\ Len(chunk_frame.data) < chunk_frame.num_channels * chunk_frame.samples_per_channel

Min(a, b) == IF a < b THEN a ELSE b

\* int(x / VolScale): Python's int() truncates toward zero
TruncDiv(x, d) == IF x >= 0 THEN x \div d ELSE -((-x) \div d)

(* --------------------------- utils.ExpFilter --------------------------- *)
\* alpha ** dt for dt = 1 / n, as a fraction <<num, den>>; exact for the
\* window lengths of SourceFrames (alpha = 1/10000, sqrt(alpha) = 1/100).
AlphaPow(n) == IF n = 1 THEN <<AlphaNum, AlphaDen>> ELSE <<1, 100>>

\* ExpFilter.apply(dt, target): filtered = a * filtered + (1 - a) * target
ExpFilterApply(filtered, n, target) ==
  LET a == AlphaPow(n)
  IN  target + (((filtered - target) * a[1]) \div a[2])

\* data[si] = int((data[si] / 32768) * vol * 32768)
ScaleSample(s, vol) == TruncDiv(s * vol, VolScale)

\* The for loop of lines 119-121 over one window: every sample advances the
\* filter once and is scaled by the new filter output.
\* Result: the scaled window, the filter output, the outputs sample by sample.
RECURSIVE GainLoop(_, _, _, _, _)
GainLoop(data, si, filtered, tv, vols) ==
  IF si > Len(data) THEN [data |-> data, filtered |-> filtered, vols |-> vols]
  ELSE LET vol == ExpFilterApply(filtered, Len(data), tv)
       IN  GainLoop([data EXCEPT ![si] = ScaleSample(data[si], vol)],
                    si + 1, vol, tv, Append(vols, vol))

(* ------------------------------- state --------------------------------- *)
VARIABLES
  tasks,          \* tasks[t]: the asyncio task of the t-th accepted play()
  handles,        \* handles[t]: the PlayoutHandle of the t-th accepted play()
  events,         \* events[t]: playout_started / playout_stopped emitted for t
  vol_filter,     \* self._vol_filter: the filter output (filtered())
  target_volume,  \* self._target_volume
  closed,         \* self._closed
  playout_atask,  \* self._playout_atask: 0 is None
  closers,        \* closers[c]: a caller of aclose(); first: it found the
                  \* source not closed; waited: it was suspended at line 63
  calls,          \* rejected: a play() call raised; counters of the bounded calls
  reraise         \* whether utils.log_exceptions re-raises what it logs

vars == <<tasks, handles, events, vol_filter, target_volume, closed,
          playout_atask, closers, calls, reraise>>

NewTask ==
  [pc |-> "none",            \* none, ready, handoff, pull, sink, done
   result |-> "none",        \* none, ok, cancelled, error
   must_cancel |-> FALSE,    \* a cancellation is pending for the next step
   old_task |-> 0,
   first_frame |-> TRUE,
   cancelled |-> FALSE,
   pulled |-> FALSE,         \* a frame was pulled from the source
   yielded |-> 0,            \* frames the source has yielded so far
   frame |-> NoFrame,        \* the frame object received from the source
   received |-> <<>>,        \* its samples at the time it was pulled
   i |-> 0,
   tv |-> 0,
   vols |-> <<>>,            \* filter outputs of the last window
   chunk_frame |-> NoFrame]  \* the frame capture_frame is holding

NewHandle == [created |-> FALSE, interrupted |-> FALSE, done_fut |-> "pending"]
NewEvents == [started |-> 0, stopped |-> 0, stopped_arg |-> FALSE]

Init ==
  /\ tasks = [t \in TaskIds |-> NewTask]
  /\ handles = [t \in TaskIds |-> NewHandle]
  /\ events = [t \in TaskIds |-> NewEvents]
  /\ vol_filter = VolScale
  /\ target_volume = VolScale
  /\ closed = FALSE
  /\ playout_atask = 0
  /\ closers = [c \in Closers |-> [pc |-> "idle", first |-> FALSE, waited |-> FALSE]]
  /\ calls = [rejected |-> FALSE, volume |-> 0, faults |-> 0]
  /\ reraise \in BOOLEAN

NumTasks == Cardinality({t \in TaskIds : tasks[t].pc # "none"})
Done(t) == tasks[t].pc = "done"

(* ----------------------- one step of a playout task -------------------- *)
\* The part of the state one step of task t reads and writes.
Ctx(t) == [tk |-> tasks[t], hd |-> handles[t], ev |-> events[t],
           filtered |-> vol_filter]

\* PlayoutHandle.playing
Playing(hd) == hd.done_fut = "pending"

\* (mutant) _should_break without the test of the filter output
ShouldBreakAtOnce(c) == c.hd.interrupted

\* _should_break (lines 81-83)
ShouldBreak(c) == c.hd.interrupted /\ c.filtered <= Eps

\* The outcome of the task: log_exceptions logs an Exception; a
\* CancelledError passes through it.
TaskResult(outcome) ==
  IF outcome = "error" THEN (IF reraise THEN "error" ELSE "ok") ELSE outcome

\* (mutant) finally block that does not resolve the handle's future
FinalizeNoResult(c, outcome) ==
  [c EXCEPT !.ev = IF ~c.tk.first_frame
                   THEN [c.ev EXCEPT !.stopped = @ + 1, !.stopped_arg = c.tk.cancelled]
                   ELSE c.ev,
            !.tk = [NewTask EXCEPT !.pc = "done", !.result = TaskResult(outcome),
                                   !.old_task = c.tk.old_task,
                                   !.first_frame = c.tk.first_frame,
                                   !.cancelled = c.tk.cancelled,
                                   !.pulled = c.tk.pulled]]

\* (mutant) finally block that emits playout_stopped unconditionally
FinalizeAlwaysStopped(c, outcome) ==
  LET ok == c.hd.done_fut = "pending"
  IN  [c EXCEPT !.ev = [c.ev EXCEPT !.stopped = @ + 1, !.stopped_arg = c.tk.cancelled],
                !.hd.done_fut = IF ok THEN "result" ELSE @,
                !.tk = [NewTask EXCEPT
                          !.pc = "done",
                          !.result = TaskResult(IF ok THEN outcome ELSE "error"),
                          !.old_task = c.tk.old_task,
                          !.first_frame = c.tk.first_frame,
                          !.cancelled = c.tk.cancelled,
                          !.pulled = c.tk.pulled]]

\* (mutant) finally block that reports handle.interrupted in playout_stopped
FinalizeInterruptedArg(c, outcome) ==
  LET ok == c.hd.done_fut = "pending"
  IN  [c EXCEPT !.ev = IF ~c.tk.first_frame
                       THEN [c.ev EXCEPT !.stopped = @ + 1,
                                         !.stopped_arg = c.hd.interrupted]
                       ELSE c.ev,
                !.hd.done_fut = IF ok THEN "result" ELSE @,
                !.tk = [NewTask EXCEPT
                          !.pc = "done",
                          !.result = TaskResult(IF ok THEN outcome ELSE "error"),
                          !.old_task = c.tk.old_task,
                          !.first_frame = c.tk.first_frame,
                          !.cancelled = c.tk.cancelled,
                          !.pulled = c.tk.pulled]]

\* finally block (lines 130-134); outcome is how the try block was left:
\* "ok", "cancelled" (CancelledError) or "error".  set_result on a future
\* that is already done raises InvalidStateError.
Finalize(c, outcome) ==
  LET ev == IF ~c.tk.first_frame
            THEN [c.ev EXCEPT !.stopped = @ + 1, !.stopped_arg = c.tk.cancelled]
            ELSE c.ev
      ok == c.hd.done_fut = "pending"
  IN  [c EXCEPT !.ev = ev,
                !.hd.done_fut = IF ok THEN "result" ELSE @,
                !.tk = [NewTask EXCEPT
                          !.pc = "done",
                          !.result = TaskResult(IF ok THEN outcome ELSE "error"),
                          !.old_task = c.tk.old_task,
                          !.first_frame = c.tk.first_frame,
                          !.cancelled = c.tk.cancelled,
                          !.pulled = c.tk.pulled]]

\* One window (lines 111-129): slice, gain, new AudioFrame, capture_frame.
\* frame.data is a memoryview, so the slice is a view of the frame's buffer
\* and the assignment data[si] = ... writes into the received frame.
Emit(c, rem, tv, g, strict) ==
  LET frame == c.tk.frame
      i == c.tk.i
      chunk_frame == [sample_rate |-> frame.sample_rate,
                      num_channels |-> frame.num_channels,
                      samples_per_channel |-> rem,
                      data |-> g.data]
      written == [k \in 1..Len(frame.data) |->
                    IF k > i /\ k <= i + rem THEN g.data[k - i] ELSE frame.data[k]]
  IN  IF AudioFrameRaises(chunk_frame, strict)
      THEN Finalize([c EXCEPT !.filtered = g.filtered], "error")
      ELSE [c EXCEPT !.tk.frame.data = written,
                     !.tk.i = i + rem,
                     !.tk.tv = tv,
                     !.tk.vols = g.vols,
                     !.filtered = g.filtered,
                     !.tk.chunk_frame = chunk_frame,
                     !.tk.pc = "sink"]

Window(c, strict) ==
  LET frame == c.tk.frame
      ms20 == frame.sample_rate \div 100
      i == c.tk.i
      rem == Min(ms20, Len(frame.data) - i)
      tv == IF ~c.hd.interrupted THEN target_volume ELSE 0
  IN  CHOOSE r \in { Emit(c, rem, tv, g, strict) :
                       g \in {GainLoop(SubSeq(frame.data, i + 1, i + rem), 1,
                                       c.filtered, tv, <<>>)} } : TRUE

\* (mutant) while loop that stops before a last window shorter than ms20
ChunksDropTail(c, strict) ==
  IF c.tk.i + (c.tk.frame.sample_rate \div 100) <= Len(c.tk.frame.data)
  THEN IF ShouldBreak(c)
       THEN [c EXCEPT !.tk.cancelled = TRUE, !.tk.pc = "pull",
                      !.tk.chunk_frame = NoFrame]
       ELSE Window(c, strict)
  ELSE [c EXCEPT !.tk.pc = "pull", !.tk.chunk_frame = NoFrame]

\* The while loop of lines 106-129 up to its next suspension point.  The
\* break of line 109 leaves the while loop only: the async for of line 94
\* then asks the source for its next frame.
Chunks(c, strict) ==
  IF c.tk.i < Len(c.tk.frame.data)
  THEN IF ShouldBreak(c)
       THEN [c EXCEPT !.tk.cancelled = TRUE, !.tk.pc = "pull",
                      !.tk.chunk_frame = NoFrame]
       ELSE Window(c, strict)
  ELSE [c EXCEPT !.tk.pc = "pull", !.tk.chunk_frame = NoFrame]

\* async for frame in handle._playout_source (line 94) receives a frame,
\* and the first frame emits playout_started (lines 95-97).
Pull(c, frame) ==
  [c EXCEPT !.tk.frame = frame, !.tk.received = frame.data,
            !.tk.i = 0, !.tk.pulled = TRUE, !.tk.yielded = @ + 1,
            !.ev.started = IF c.tk.first_frame THEN @ + 1 ELSE @,
            !.tk.first_frame = FALSE]

\* The rest of the body of the async for (lines 99-129) for the frame pulled.
OnFrame(c, strict) ==
  IF ShouldBreak(c)
  THEN Finalize([c EXCEPT !.tk.cancelled = TRUE], "ok")
  ELSE Chunks(c, strict)

\* The end of the hand-off (lines 89-92): await old_task has finished with
\* old_result while contextlib.suppress(CancelledError) is active.
AfterHandoff(c, old_result) ==
  IF c.tk.must_cancel
  THEN [c EXCEPT !.tk.must_cancel = FALSE, !.tk.pc = "pull"]
  ELSE IF old_result = "error"
       THEN Finalize(c, "error")
       ELSE [c EXCEPT !.tk.pc = "pull"]

\* asyncio.Task.cancel: the task that receives the pending cancellation when
\* cancel() is called on task u; 0 when u is done.  A task that awaits a task
\* that is not done passes the cancellation on to it.
RECURSIVE CancelTarget(_)
CancelTarget(u) ==
  IF u = 0 \/ tasks[u].pc = "done" THEN 0
  ELSE IF tasks[u].pc = "handoff" /\ tasks[tasks[u].old_task].pc # "done"
       THEN CancelTarget(tasks[u].old_task)
       ELSE u

\* Write the result of a step of task t back, tasks0 being the tasks after
\* the other effects of the step.
Step(t, c, tasks0) ==
  \E r \in {c} :
    /\ tasks' = [tasks0 EXCEPT ![t] = r.tk]
    /\ handles' = [handles EXCEPT ![t] = r.hd]
    /\ events' = [events EXCEPT ![t] = r.ev]
    /\ vol_filter' = r.filtered
  /\ UNCHANGED <<target_volume, closed, playout_atask, closers, reraise>>

\* A step of task t that involves no fault
Commit(t, c, tasks0) == Step(t, c, tasks0) /\ UNCHANGED calls

(* ------------------------------ actions -------------------------------- *)
\* (mutant) play() without the check of self._closed
PlayUnchecked ==
  /\ NumTasks < MaxPlays
  /\ LET t == NumTasks + 1
     IN  /\ handles' = [handles EXCEPT ![t].created = TRUE]
         /\ tasks' = [tasks EXCEPT ![t].pc = "ready",
                                   ![t].old_task = playout_atask]
         /\ playout_atask' = t
  /\ UNCHANGED <<events, vol_filter, target_volume, closed, closers, calls, reraise>>

\* play() (lines 65-73)
Play ==
  IF closed
  THEN /\ calls' = [calls EXCEPT !.rejected = TRUE]
       /\ UNCHANGED <<tasks, handles, events, vol_filter, target_volume, closed,
                      playout_atask, closers, reraise>>
  ELSE /\ NumTasks < MaxPlays
       /\ LET t == NumTasks + 1
          IN  /\ handles' = [handles EXCEPT ![t].created = TRUE]
              /\ tasks' = [tasks EXCEPT ![t].pc = "ready",
                                        ![t].old_task = playout_atask]
              /\ playout_atask' = t
       /\ UNCHANGED <<events, vol_filter, target_volume, closed, closers, calls, reraise>>

\* (mutant) the hand-off cancels the old task and does not wait for it
TaskStartNoAwait(t) ==
  /\ tasks[t].pc = "ready"
  /\ \A u \in TaskIds : u < t => tasks[u].pc # "ready"
  /\ LET target == CancelTarget(tasks[t].old_task)
         tasks0 == IF target = 0 THEN tasks
                   ELSE [tasks EXCEPT ![target].must_cancel = TRUE]
     IN  Commit(t, [Ctx(t) EXCEPT !.tk.pc = "pull"], tasks0)

\* First step of the task (lines 85-94).  The event loop runs the ready
\* tasks in the order of their creation.
TaskStart(t) ==
  /\ tasks[t].pc = "ready"
  /\ \A u \in TaskIds : u < t => tasks[u].pc # "ready"
  /\ LET old == tasks[t].old_task
         target == CancelTarget(old)
         tasks0 == IF target = 0 THEN tasks
                   ELSE [tasks EXCEPT ![target].must_cancel = TRUE]
         c == Ctx(t)
     IN  IF old = 0
         THEN Commit(t, [c EXCEPT !.tk.pc = "pull"], tasks0)
         ELSE IF tasks[old].pc = "done"
              THEN Commit(t, AfterHandoff(c, tasks[old].result), tasks0)
              ELSE Commit(t, [c EXCEPT !.tk.pc = "handoff"], tasks0)

\* (mutant) await old_task returns before the old task is done
HandoffResumeEarly(t) ==
  /\ tasks[t].pc = "handoff"
  /\ Commit(t, [Ctx(t) EXCEPT !.tk.must_cancel = FALSE, !.tk.pc = "pull"], tasks)

\* await old_task returns or raises (line 92)
HandoffResume(t) ==
  /\ tasks[t].pc = "handoff"
  /\ tasks[tasks[t].old_task].pc = "done"
  /\ Commit(t, AfterHandoff(Ctx(t), tasks[tasks[t].old_task].result), tasks)

\* The source yields a frame (line 94), or the pending cancellation is
\* raised at the await.
SourceYield(t, frame) ==
  /\ tasks[t].pc = "pull"
  /\ IF tasks[t].must_cancel
     THEN Commit(t, Finalize(Ctx(t), "cancelled"), tasks)
     ELSE /\ tasks[t].yielded < MaxFrames
          /\ \E c \in {Pull(Ctx(t), frame)}, strict \in BOOLEAN :
               Commit(t, OnFrame(c, strict), tasks)

\* The source is exhausted (StopAsyncIteration ends the async for)
SourceEnd(t) ==
  /\ tasks[t].pc = "pull"
  /\ ~tasks[t].must_cancel
  /\ Commit(t, Finalize(Ctx(t), "ok"), tasks)

\* The source raises (SourceFailure)
SourceFail(t) ==
  /\ tasks[t].pc = "pull"
  /\ ~tasks[t].must_cancel
  /\ calls.faults < MaxFaults
  /\ calls' = [calls EXCEPT !.faults = @ + 1]
  /\ Step(t, Finalize(Ctx(t), "error"), tasks)

\* (mutant) capture_frame returns although a cancellation is pending
SinkAcceptIgnoreCancel(t) ==
  /\ tasks[t].pc = "sink"
  /\ \E c \in {Ctx(t)}, strict \in BOOLEAN :
       Commit(t, Chunks(c, strict), tasks)

\* capture_frame returns (line 129), or the pending cancellation is raised
SinkAccept(t) ==
  /\ tasks[t].pc = "sink"
  /\ IF tasks[t].must_cancel
     THEN Commit(t, Finalize(Ctx(t), "cancelled"), tasks)
     ELSE \E c \in {Ctx(t)}, strict \in BOOLEAN :
            Commit(t, Chunks(c, strict), tasks)

\* capture_frame raises (SinkFailure)
SinkFail(t) ==
  /\ tasks[t].pc = "sink"
  /\ ~tasks[t].must_cancel
  /\ calls.faults < MaxFaults
  /\ calls' = [calls EXCEPT !.faults = @ + 1]
  /\ Step(t, Finalize(Ctx(t), "error"), tasks)

\* (mutant) interrupt() without the check of self.playing
InterruptUnchecked(t) ==
  /\ handles[t].created
  /\ handles' = [handles EXCEPT ![t].interrupted = TRUE]
  /\ UNCHANGED <<tasks, events, vol_filter, target_volume, closed,
                 playout_atask, closers, calls, reraise>>

\* PlayoutHandle.interrupt (lines 29-33)
Interrupt(t) ==
  /\ handles[t].created
  /\ handles' = IF ~Playing(handles[t]) THEN handles
                ELSE [handles EXCEPT ![t].interrupted = TRUE]
  /\ UNCHANGED <<tasks, events, vol_filter, target_volume, closed,
                 playout_atask, closers, calls, reraise>>

\* A caller suspended in await handle (lines 35-36) is cancelled: the
\* cancellation of the caller cancels the future it waits for.
AwaiterCancelled(t) ==
  /\ handles[t].created
  /\ Playing(handles[t])
  /\ calls.faults < MaxFaults
  /\ calls' = [calls EXCEPT !.faults = @ + 1]
  /\ handles' = [handles EXCEPT ![t].done_fut = "cancelled"]
  /\ UNCHANGED <<tasks, events, vol_filter, target_volume, closed,
                 playout_atask, closers, reraise>>

\* target_volume setter (lines 52-54)
SetTargetVolume(v) ==
  /\ calls.volume < MaxVolumeSets
  /\ v # target_volume
  /\ target_volume' = v
  /\ calls' = [calls EXCEPT !.volume = @ + 1]
  /\ UNCHANGED <<tasks, handles, events, vol_filter, closed, playout_atask,
                 closers, reraise>>

\* How await self._playout_atask ends for a task that is done
CloseEnd(result) == IF result = "error" THEN "raised" ELSE "returned"

\* aclose() up to its suspension point (lines 56-63)
Close(c) ==
  /\ closers[c].pc = "idle"
  /\ \A d \in Closers : d < c => closers[d].pc # "idle"
  /\ IF closed
     THEN /\ closers' = [closers EXCEPT ![c].pc = "returned"]
          /\ UNCHANGED closed
     ELSE /\ closed' = TRUE
          /\ closers' = [closers EXCEPT
               ![c].first = TRUE,
               ![c].waited = playout_atask # 0 /\ ~Done(playout_atask),
               ![c].pc = IF playout_atask = 0 THEN "returned"
                         ELSE IF Done(playout_atask)
                              THEN CloseEnd(tasks[playout_atask].result)
                              ELSE "waiting"]
  /\ UNCHANGED <<tasks, handles, events, vol_filter, target_volume,
                 playout_atask, calls, reraise>>

\* (mutant) aclose() returns without waiting for the task
CloseResumeEarly(c) ==
  /\ closers[c].pc = "waiting"
  /\ closers' = [closers EXCEPT ![c].pc = "returned"]
  /\ UNCHANGED <<tasks, handles, events, vol_filter, target_volume, closed,
                 playout_atask, calls, reraise>>

\* await self._playout_atask finishes (line 63)
CloseResume(c) ==
  /\ closers[c].pc = "waiting"
  /\ Done(playout_atask)
  /\ closers' = [closers EXCEPT ![c].pc = CloseEnd(tasks[playout_atask].result)]
  /\ UNCHANGED <<tasks, handles, events, vol_filter, target_volume, closed,
                 playout_atask, calls, reraise>>

TaskStep(t) ==
  \/ TaskStart(t)
  \/ HandoffResume(t)
  \/ \E frame \in SourceFrames : SourceYield(t, frame)
  \/ SourceEnd(t)
  \/ SourceFail(t)
  \/ SinkAccept(t)
  \/ SinkFail(t)

Next ==
  \/ Play
  \/ \E t \in TaskIds : TaskStep(t)
  \/ \E t \in TaskIds : Interrupt(t)
  \/ \E t \in TaskIds : AwaiterCancelled(t)
  \/ \E v \in Volumes : SetTargetVolume(v)
  \/ \E c \in Closers : Close(c)
  \/ \E c \in Closers : CloseResume(c)

Spec == Init /\ [][Next]_vars

\* The specification of the liveness claims: fewer play() calls, and the
\* event loop keeps running the tasks that are ready to run (a source
\* yields, ends or raises; the sink accepts or raises).
FairNext ==
  \/ (closed \/ NumTasks < MaxFairPlays) /\ Play
  \/ \E t \in TaskIds : TaskStep(t)
  \/ \E t \in TaskIds : Interrupt(t)
  \/ \E t \in TaskIds : AwaiterCancelled(t)
  \/ \E v \in Volumes : SetTargetVolume(v)
  \/ \E c \in Closers : Close(c)
  \/ \E c \in Closers : CloseResume(c)

Fairness == WF_vars(\E t \in TaskIds : TaskStep(t))
FairSpec == Init /\ [][FairNext]_vars /\ Fairness

TypeOK ==
  /\ closed \in BOOLEAN
  /\ playout_atask \in 0..MaxPlays
  /\ vol_filter \in 0..VolScale
  /\ target_volume \in Volumes
  /\ \A t \in TaskIds :
       /\ tasks[t].pc \in {"none", "ready", "handoff", "pull", "sink", "done"}
       /\ tasks[t].result \in {"none", "ok", "cancelled", "error"}
       /\ handles[t].done_fut \in {"pending", "result", "cancelled"}

Started(t) == tasks[t].pc # "none"

(* ------------------------------- claims -------------------------------- *)
Returned(c) == closers[c].pc \in {"returned", "raised"}
Drained == \A t \in TaskIds : Started(t) => Done(t) /\ ~Playing(handles[t])

\* C1: a playout task has a frame at the sink (capture_frame) only when
\* every earlier playout task has finished, and at most one task has a frame
\* at the sink at any instant.
C1_OneWriter ==
  /\ \A t \in TaskIds : tasks[t].pc = "sink" => \A u \in TaskIds : u < t => Done(u)
  /\ Cardinality({t \in TaskIds : tasks[t].pc = "sink"}) <= 1

\* C1 witness: the second playout is at the sink after the first one, still
\* running when the second started, was cancelled by the hand-off.
C1_Witness ==
  /\ tasks[2].pc = "sink"
  /\ tasks[1].result = "cancelled"
  /\ events[1].started = 1

C3_Events ==
  \A t \in TaskIds :
    /\ events[t].started = (IF tasks[t].pulled THEN 1 ELSE 0)
    /\ events[t].stopped = (IF Done(t) /\ tasks[t].pulled THEN 1 ELSE 0)

\* C3 witness: a finished playout that pulled a frame and emitted both
\* events next to a finished playout that pulled none and emitted neither.
C3_Witness ==
  \E t, u \in TaskIds :
    /\ Done(t) /\ tasks[t].pulled /\ events[t].stopped = 1
    /\ Done(u) /\ ~tasks[u].pulled /\ events[u].started = 0

\* C4: once closed, the source stays closed and no step creates a task or a
\* handle or changes the active-task reference.
C4_ClosedRejects ==
  [][closed =>
       /\ closed'
       /\ playout_atask' = playout_atask
       /\ \A t \in TaskIds : /\ Started(t)' = Started(t)
                             /\ handles'[t].created = handles[t].created]_vars

\* C4 witness: play() was called on the closed source and raised, after an
\* accepted play() and with room for another playout.
C4_Witness == closed /\ calls.rejected /\ NumTasks >= 1 /\ NumTasks < MaxPlays

\* C5: when the aclose() call that closed the source has returned, every
\* playout task that was started has finished and its handle is resolved.
C5_CloseDrains ==
  \A c \in Closers : closers[c].first /\ Returned(c) => Drained

\* C5 witness: the closing call was suspended on a running task, with a
\* predecessor in the hand-off chain, and has returned.
C5_Witness ==
  \E c \in Closers :
    /\ closers[c].first /\ closers[c].waited /\ closers[c].pc = "returned"
    /\ NumTasks >= 2

\* C6 (as claimed): every aclose() call that has returned, the second one
\* included, finds no playout task still running.
C6_EveryCloseDrains ==
  \A c \in Closers : Returned(c) => \A t \in TaskIds : Started(t) => Done(t)

\* C7: for a window processed after interrupt() the gain target is 0 and the
\* filter output does not increase from sample to sample; an interrupted task
\* whose filter output is above eps emits its next window; and the break
\* (cancelled = True) is taken only when interrupted and filter output <= eps.
NonIncreasing(seq) == \A k \in 1..(Len(seq) - 1) : seq[k + 1] <= seq[k]
WindowDone(t) ==
  /\ tasks'[t].pc = "sink"
  /\ tasks'[t].i # tasks[t].i \/ tasks'[t].yielded # tasks[t].yielded
C7_FadeStop ==
  [][\A t \in TaskIds :
       /\ (handles[t].interrupted /\ WindowDone(t)) =>
            /\ tasks'[t].tv = 0
            /\ NonIncreasing(<<vol_filter>> \o tasks'[t].vols)
            /\ vol_filter' = tasks'[t].vols[Len(tasks'[t].vols)]
       /\ (/\ handles[t].interrupted /\ vol_filter > Eps
           /\ tasks[t].pc = "sink" /\ ~tasks[t].must_cancel
           /\ tasks[t].i < Len(tasks[t].frame.data)
           /\ tasks'[t].pc # "sink" \/ tasks'[t].i # tasks[t].i
           /\ calls.faults' = calls.faults) =>
            tasks'[t].pc = "sink" /\ ~tasks'[t].cancelled
       /\ (tasks'[t].cancelled /\ ~tasks[t].cancelled) =>
            handles[t].interrupted /\ vol_filter <= Eps]_vars

\* C7 witness: an interrupted playout emitted windows during the fade and
\* stopped by the break condition once the filter output was <= eps.
C7_Witness ==
  \E t \in TaskIds :
    /\ Done(t) /\ tasks[t].cancelled /\ handles[t].interrupted
    /\ events[t].stopped = 1 /\ events[t].stopped_arg
    /\ vol_filter <= Eps

\* C8: interrupted is false until the handle exists, changes only from false
\* to true and only while the handle is playing.
C8_InterruptedMonotonic ==
  /\ [](\A t \in TaskIds : ~handles[t].created => ~handles[t].interrupted)
  /\ [][\A t \in TaskIds :
          /\ handles[t].interrupted => handles'[t].interrupted
          /\ ~Playing(handles[t]) =>
               handles'[t].interrupted = handles[t].interrupted]_vars

\* C8 witness: a handle interrupted while playing is still interrupted after
\* its completion, next to a completed handle that never was.
C8_Witness ==
  \E t, u \in TaskIds :
    /\ Done(t) /\ handles[t].interrupted
    /\ Done(u) /\ ~handles[u].interrupted

\* C9: when a playout has emitted playout_started, the playout before it has
\* finished: its playout_stopped (if any) is emitted and its handle resolved.
C9_StartAfterTeardown ==
  \A t \in TaskIds :
    (t > 1 /\ events[t].started > 0) =>
       /\ Done(t - 1)
       /\ ~Playing(handles[t - 1])
       /\ events[t - 1].stopped = events[t - 1].started

\* C9 witness: the second playout has started after the first one, cancelled
\* while streaming, emitted playout_stopped.
C9_Witness ==
  /\ events[2].started = 1
  /\ events[1].stopped = 1
  /\ tasks[1].result = "cancelled"

\* C10 (as claimed): the buffer of the frame received from the source holds
\* the samples it held when it was pulled.
C10_ReceivedFrameUnchanged ==
  \A t \in TaskIds : tasks[t].frame.data = tasks[t].received

\* C11: a step of a playout task that has a cancellation pending while it
\* waits for the next frame or for the sink ends the task: it pulls no frame,
\* emits no event of a start and leaves no frame at the sink.
C11_CancelUnwinds ==
  [][\A t \in TaskIds :
       (/\ tasks[t].must_cancel
        /\ tasks[t].pc \in {"pull", "sink"}
        /\ tasks'[t] # tasks[t]) =>
          /\ tasks'[t].pc = "done"
          /\ tasks'[t].pulled = tasks[t].pulled
          /\ events'[t].started = events[t].started
          /\ tasks'[t].chunk_frame = NoFrame]_vars

\* C11 witness: one playout was cancelled by the hand-off after it had
\* pulled a frame, another one while it waited for its first frame.
C11_Witness ==
  \E t, u \in TaskIds :
    /\ tasks[t].result = "cancelled" /\ tasks[t].pulled
    /\ tasks[u].result = "cancelled" /\ ~tasks[u].pulled /\ events[u].started = 0

\* C12 (as claimed): no aclose() call raises.
C12_CloseNeverFails == \A c \in Closers : closers[c].pc # "raised"

\* C13: the argument of playout_stopped is the task's cancelled flag; it is
\* true only for an interrupted handle; the flag is set only by a step that
\* checks the break condition with the handle interrupted and the filter
\* output <= eps; and a stop of a task that has not seen the break condition
\* reports false.
C13_StoppedArg ==
  /\ [](\A t \in TaskIds :
          /\ events[t].stopped > 0 => events[t].stopped_arg = tasks[t].cancelled
          /\ events[t].stopped_arg => handles[t].interrupted)
  /\ [][\A t \in TaskIds :
          /\ (tasks'[t].cancelled /\ ~tasks[t].cancelled) =>
               /\ handles[t].interrupted /\ vol_filter <= Eps
               /\ ~tasks[t].must_cancel
               /\ tasks[t].pc \in {"pull", "sink"}
          /\ (/\ events'[t].stopped > events[t].stopped
              /\ ~tasks[t].cancelled
              /\ ~(handles[t].interrupted /\ vol_filter <= Eps)) =>
               ~events'[t].stopped_arg]_vars

\* C13 witness: an interrupted playout whose source ran out during the fade
\* has emitted playout_stopped(False).
C13_Witness ==
  \E t \in TaskIds :
    /\ Done(t) /\ tasks[t].result = "ok" /\ handles[t].interrupted
    /\ events[t].stopped = 1 /\ ~events[t].stopped_arg
    /\ vol_filter > Eps

\* C14: the window at the sink is the gain-scaled slice of the received
\* buffer that starts at a multiple of ms20 = sample_rate // 100 and has ms20
\* samples, or the rest of the buffer if that is shorter; the windows of a
\* frame follow one another without gap or overlap, the first starts at 0,
\* and the next frame is pulled, the break apart, only when the windows
\* cover the whole buffer.
WindowStart(tk) == tk.i - Len(tk.chunk_frame.data)
C15_BreakFinalizes ==
  [][\A t \in TaskIds :
       (/\ tasks[t].pc = "sink" /\ ~tasks[t].must_cancel
        /\ tasks[t].i < Len(tasks[t].frame.data)
        /\ handles[t].interrupted /\ vol_filter <= Eps
        /\ tasks'[t].pc # "sink") =>
          tasks'[t].pc = "done"]_vars

\* C16 (as claimed): no playout task ends in its hand-off step, so the way
\* its predecessor ended is not raised inside it.
C16_FailureNotReraised ==
  [][\A t \in TaskIds :
       tasks[t].pc \in {"ready", "handoff"} => tasks'[t].pc # "done"]_vars

\* C17 (as claimed): a playout task that is in its hand-off step when its
\* successor has run its first step (and so has cancelled it) leaves the
\* hand-off only by finishing.
C17_CancelledInHandoff ==
  [][\A t \in 1..(MaxPlays - 1) :
       (tasks[t].pc = "handoff" /\ tasks[t + 1].pc \notin {"none", "ready"}) =>
          tasks'[t].pc \in {"handoff", "done"}]_vars

\* C18 (as claimed): the frame at the sink has the sample rate and channel
\* count of the frame it was cut from and a buffer of samples_per_channel *
\* num_channels samples.
C18_FrameConsistent ==
  \A t \in TaskIds : tasks[t].pc = "sink" =>
    /\ tasks[t].chunk_frame.sample_rate = tasks[t].frame.sample_rate
    /\ tasks[t].chunk_frame.num_channels = tasks[t].frame.num_channels
    /\ Len(tasks[t].chunk_frame.data) =
         tasks[t].chunk_frame.samples_per_channel * tasks[t].chunk_frame.num_channels

\* C19 (as claimed): a handle stops playing only in the step that finishes
\* its playout task.
C19_PlayingUntilCompletion ==
  [][\A t \in TaskIds :
       (Playing(handles[t]) /\ ~Playing(handles'[t])) => tasks'[t].pc = "done"]_vars

====
